---- MODULE Spec2Model ----
(***************************************************************************)
(* A model of date_utils (src/date_utils/__init__.py): the calendar        *)
(* boundary functions, the range enumerations and the time zone            *)
(* conversions.  Every function of the module is pure, so a behaviour is   *)
(* a choice of arguments (Init) followed by the calls made on them.        *)
(*                                                                         *)
(* The module is Python 2 code (setup.py lists 2.6, 2.7 and PyPy), so `/`  *)
(* on two ints is floor division.  The standard library functions it calls *)
(* (datetime, calendar, time.strptime, email.utils.parsedate_tz) are       *)
(* modelled by the arithmetic of their reference implementations.          *)
(***************************************************************************)
EXTENDS Integers, Sequences, FiniteSets, TLC

VARIABLES
    date_str,   \* the text argument of the convert_date_str_* functions
    date,       \* the first argument (date / date_start) of the last call
    date_end,   \* the second argument of a range function
    reverse,    \* get_dates_between_range's flag
    timezone,   \* the zone name given to convert_date_to_local_date
    calls,      \* the functions called so far, in order
    result      \* what the last call returned or raised

vars == <<date_str, date, date_end, reverse, timezone, calls, result>>

-----------------------------------------------------------------------------
(* Bounds of the model *)

MinYear == 2010
MaxYear == 2019
MaxTimeSpan == 20
MaxBack == 10
MaxSpan == 70
MaxStartSpan == 19
MaxTzSpan == 11

-----------------------------------------------------------------------------
(* Values: datetime.date, datetime.datetime and tzinfo objects *)

None == [kind |-> "None", zone |-> "", offset |-> 0]

\* TZInfo(offset): a fixed offset in seconds, tzname ''
TZInfo(offset) == [kind |-> "TZInfo", zone |-> "", offset |-> offset]

\* TZInfo(None): self.offset is None and utcoffset() raises TypeError (the
\* offset field of the record is not read)
TZInfoOfNone == [kind |-> "TZInfo(None)", zone |-> "", offset |-> 0]

Date(year, month, day) ==
    [kind |-> "date", year |-> year, month |-> month, day |-> day,
     hour |-> 0, minute |-> 0, second |-> 0, microsecond |-> 0, tzinfo |-> None]

Datetime(year, month, day, hour, minute, second, microsecond, tzinfo) ==
    [kind |-> "datetime", year |-> year, month |-> month, day |-> day,
     hour |-> hour, minute |-> minute, second |-> second,
     microsecond |-> microsecond, tzinfo |-> tzinfo]

\* isinstance(x, datetime.date): datetime.datetime is a subclass of
\* datetime.date, so the test is true of both kinds
IsInstanceOfDate(x) == x.kind \in {"date", "datetime"}

\* datetime.replace(hour=, minute=, second=, microsecond=)
ReplaceTime(dt, hour, minute, second, microsecond) ==
    [dt EXCEPT !.hour = hour, !.minute = minute, !.second = second,
               !.microsecond = microsecond]

\* datetime.date(): the date part of a datetime
DatePart(dt) == Date(dt.year, dt.month, dt.day)

Returned(v) == [raised |-> "", value |-> v]
Raised(e) == [raised |-> e, value |-> <<>>]

-----------------------------------------------------------------------------
(* The proleptic Gregorian calendar of datetime and calendar *)

\* calendar.isleap
isleap(year) == year % 4 = 0 /\ (year % 100 # 0 \/ year % 400 = 0)

\* calendar.mdays
mdays == <<31, 28, 31, 30, 31, 30, 31, 31, 30, 31, 30, 31>>

\* calendar.monthrange(year, month)[1]
DaysInMonth(year, month) ==
    mdays[month] + (IF month = 2 /\ isleap(year) THEN 1 ELSE 0)

\* datetime._days_before_year
DaysBeforeYear(year) ==
    LET y == year - 1
    IN  y * 365 + (y \div 4) - (y \div 100) + (y \div 400)

RECURSIVE DaysBeforeMonth(_, _)
\* datetime._days_before_month
DaysBeforeMonth(year, month) ==
    IF month = 1 THEN 0
    ELSE DaysBeforeMonth(year, month - 1) + DaysInMonth(year, month - 1)

\* date.toordinal(): 0001-01-01 is day 1
ToOrdinal(d) == DaysBeforeYear(d.year) + DaysBeforeMonth(d.year, d.month) + d.day

RECURSIVE MonthOfYearDay(_, _, _)
\* the month holding the n-th (0-based) day of a year, and the day in it
MonthOfYearDay(year, month, n) ==
    IF n < DaysInMonth(year, month) THEN <<month, n + 1>>
    ELSE MonthOfYearDay(year, month + 1, n - DaysInMonth(year, month))

\* datetime._ord2ymd: the 400/100/4/1 year cycles
Ord2Ymd(ordinal) ==
    LET n0 == ordinal - 1
        n400 == n0 \div 146097
        r400 == n0 % 146097
        n100 == r400 \div 36524
        r100 == r400 % 36524
        n4 == r100 \div 1461
        r4 == r100 % 1461
        n1 == r4 \div 365
        r1 == r4 % 365
        year == n400 * 400 + 1 + n100 * 100 + n4 * 4 + n1
    IN  IF n1 = 4 \/ n100 = 4 THEN <<year - 1, 12, 31>>
        ELSE LET md == MonthOfYearDay(year, 1, r1)
             IN  <<year, md[1], md[2]>>

\* date.fromordinal
FromOrdinal(ordinal) ==
    LET ymd == Ord2Ymd(ordinal) IN Date(ymd[1], ymd[2], ymd[3])

\* date.weekday(): Monday is 0
Weekday(d) == (ToOrdinal(d) + 6) % 7

\* x + datetime.timedelta(days=days): the time of day and tzinfo are kept
AddDays(x, days) ==
    LET ymd == Ord2Ymd(ToOrdinal(x) + days)
    IN  [x EXCEPT !.year = ymd[1], !.month = ymd[2], !.day = ymd[3]]

\* (a - b).days for two dates
DiffDays(a, b) == ToOrdinal(a) - ToOrdinal(b)

\* datetime._isoweek1monday
IsoWeek1Monday(year) ==
    LET firstday == DaysBeforeYear(year) + 1
        firstweekday == (firstday + 6) % 7
        week1monday == firstday - firstweekday
    IN  IF firstweekday > 3 THEN week1monday + 7 ELSE week1monday

\* date.isocalendar(): <<ISO year, ISO week, ISO weekday>>
isocalendar(d) ==
    LET today == ToOrdinal(d)
        week == (today - IsoWeek1Monday(d.year)) \div 7
        day == (today - IsoWeek1Monday(d.year)) % 7
    IN  IF week < 0
        THEN <<d.year - 1,
               ((today - IsoWeek1Monday(d.year - 1)) \div 7) + 1,
               ((today - IsoWeek1Monday(d.year - 1)) % 7) + 1>>
        ELSE IF week >= 52 /\ today >= IsoWeek1Monday(d.year + 1)
        THEN <<d.year + 1, 1, day + 1>>
        ELSE <<d.year, week + 1, day + 1>>

-----------------------------------------------------------------------------
(* time.strptime('<year> <week> 1', '%Y %W %w'), time.mktime and           *)
(* datetime.fromtimestamp                                                  *)

\* CalcJulianFromW taking 1 January for the first Monday of the year
CalcJulianFromW_NoWeek0(year, week_of_year, day_of_week) ==
    LET first_weekday == Weekday(Date(year, 1, 1))
    IN  IF week_of_year = 0
        THEN 1 + day_of_week - first_weekday
        ELSE 1 + 7 * (week_of_year - 1) + day_of_week

\* _strptime._calc_julian_from_U_or_W with week_starts_Mon: the day of the
\* year (1-based) of the given weekday of %W week week_of_year
CalcJulianFromW(year, week_of_year, day_of_week) ==
    LET first_weekday == Weekday(Date(year, 1, 1))
        week_0_length == (7 - first_weekday) % 7
    IN  IF week_of_year = 0
        THEN 1 + day_of_week - first_weekday
        ELSE 1 + week_0_length + 7 * (week_of_year - 1) + day_of_week

\* time.strptime(..., '%Y %W %w'): %w counts Sunday as 0, struct_time's
\* tm_wday counts Monday as 0; a day of the year <= 0 lies in the year before
StrptimeYearWeekWeekday(year, week, w) ==
    LET weekday == IF w = 0 THEN 6 ELSE w - 1
        julian == CalcJulianFromW(year, week, weekday)
        d == FromOrdinal((julian - 1) + ToOrdinal(Date(year, 1, 1)))
    IN  [tm_year |-> d.year, tm_mon |-> d.month, tm_mday |-> d.day,
         tm_hour |-> 0, tm_min |-> 0, tm_sec |-> 0]

\* a POSIX timestamp, kept as whole days and seconds of the day since
\* 1970-01-01T00:00Z (days * 86400 + seconds is the number time.time counts)
Timestamp(days, seconds) ==
    [days |-> days + (seconds \div 86400), seconds |-> seconds % 86400]

\* time.mktime: the timestamp of a local wall clock, in a local zone
\* local_offset seconds east of UTC; 719163 is date(1970, 1, 1).toordinal()
Mktime(t, local_offset) ==
    Timestamp(ToOrdinal(Date(t.tm_year, t.tm_mon, t.tm_mday)) - 719163,
              t.tm_hour * 3600 + t.tm_min * 60 + t.tm_sec - local_offset)

\* datetime.datetime.fromtimestamp: the naive local wall clock
FromTimestamp(ts, local_offset) ==
    LET local == Timestamp(ts.days, ts.seconds + local_offset)
        d == FromOrdinal(719163 + local.days)
        s == local.seconds
    IN  Datetime(d.year, d.month, d.day, s \div 3600, (s % 3600) \div 60,
                 s % 60, 0, None)

\* the offsets of the local zones the process may run in
LocalOffsets == {-28800, 0, 3600, 19800}

-----------------------------------------------------------------------------
(* CalendarBoundary *)

get_min_time(d) ==
    LET dt == IF IsInstanceOfDate(d)
              THEN Datetime(d.year, d.month, d.day, 0, 0, 0, 0, None)
              ELSE d
    IN  ReplaceTime(dt, 0, 0, 0, 0)

get_max_time(d) ==
    LET dt == IF IsInstanceOfDate(d)
              THEN Datetime(d.year, d.month, d.day, 0, 0, 0, 0, None)
              ELSE d
    IN  ReplaceTime(dt, 23, 59, 59, 999999)

get_date_boundaries(d) == <<get_min_time(d), get_max_time(d)>>

get_week_boundaries(d, local_offset) ==
    LET week_number == isocalendar(d)[2]
        parsed == StrptimeYearWeekWeekday(d.year, week_number - 1, 1)
        date_min == FromTimestamp(Mktime(parsed, local_offset), local_offset)
        date_max == get_max_time(AddDays(date_min, 6))
    IN  <<date_min, date_max>>

\* get_month_boundaries reading the month's length off calendar.mdays,
\* without February's leap day
get_month_boundaries_NoLeapDay(d) ==
    LET max_day == mdays[d.month]
        date_min == get_min_time(Datetime(d.year, d.month, 1, 0, 0, 0, 0, None))
        date_max == get_max_time(Datetime(d.year, d.month, max_day, 0, 0, 0, 0, None))
    IN  <<date_min, date_max>>

get_month_boundaries(d) ==
    LET max_day == DaysInMonth(d.year, d.month)
        date_min == get_min_time(Datetime(d.year, d.month, 1, 0, 0, 0, 0, None))
        date_max == get_max_time(Datetime(d.year, d.month, max_day, 0, 0, 0, 0, None))
    IN  <<date_min, date_max>>

-----------------------------------------------------------------------------
(* The arguments of the boundary functions *)

\* every date of the years first..last
DatesOfYears(first, last) ==
    {FromOrdinal(n) : n \in ToOrdinal(Date(first, 1, 1)) .. ToOrdinal(Date(last, 12, 31))}

\* century years, leap (2000) and not (1900, 2100)
CenturyYears == {1900, 2000, 2100}

TimesOfDay == {<<0, 0, 0, 0>>, <<0, 39, 59, 0>>, <<12, 30, 15, 500000>>,
               <<23, 59, 59, 999999>>}

Offsets == {-25200, 0, 7200, 19800}

\* datetimes, naive and aware, on the days from 2013-12-22 on
TimedInputs ==
    {Datetime(d.year, d.month, d.day, t[1], t[2], t[3], t[4], tz) :
        d \in {FromOrdinal(ToOrdinal(Date(2013, 12, 22)) + k) : k \in 0 .. MaxTimeSpan},
        t \in TimesOfDay,
        tz \in {None} \cup {TZInfo(o) : o \in Offsets}}

BoundaryInputs ==
    DatesOfYears(MinYear, MaxYear)
    \cup UNION {DatesOfYears(y, y) : y \in CenturyYears}
    \cup TimedInputs

InitBoundary ==
    /\ date \in BoundaryInputs
    /\ date_str = None
    /\ date_end = None
    /\ reverse = FALSE
    /\ timezone = ""
    /\ calls = <<>>
    /\ result = Returned(<<>>)

Call(name, res) ==
    /\ calls' = Append(calls, name)
    /\ result' = res

GetMinTime ==
    /\ calls = <<>>
    /\ Call("get_min_time", Returned(get_min_time(date)))
    /\ UNCHANGED <<date_str, date, date_end, reverse, timezone>>

GetMaxTime ==
    /\ calls = <<>>
    /\ Call("get_max_time", Returned(get_max_time(date)))
    /\ UNCHANGED <<date_str, date, date_end, reverse, timezone>>

GetDateBoundaries ==
    /\ calls = <<>>
    /\ Call("get_date_boundaries", Returned(get_date_boundaries(date)))
    /\ UNCHANGED <<date_str, date, date_end, reverse, timezone>>

GetWeekBoundaries ==
    /\ calls = <<>>
    /\ \E local_offset \in LocalOffsets :
           Call("get_week_boundaries",
                Returned(get_week_boundaries(date, local_offset)))
    /\ UNCHANGED <<date_str, date, date_end, reverse, timezone>>

GetMonthBoundaries ==
    /\ calls = <<>>
    /\ Call("get_month_boundaries", Returned(get_month_boundaries(date)))
    /\ UNCHANGED <<date_str, date, date_end, reverse, timezone>>

Next ==
    \/ GetMinTime
    \/ GetMaxTime
    \/ GetDateBoundaries
    \/ GetWeekBoundaries
    \/ GetMonthBoundaries

Spec == InitBoundary /\ [][Next]_vars

-----------------------------------------------------------------------------
(* RangeEnumerator *)

\* range(start, stop) as a list: empty when stop <= start
Range(start, stop) ==
    [i \in 1 .. (IF stop > start THEN stop - start ELSE 0) |-> start + i - 1]

\* reversed(seq)
Reversed(seq) == [i \in 1 .. Len(seq) |-> seq[Len(seq) + 1 - i]]

\* get_dates_between_range whose ascending loop starts one value late
get_dates_between_range_SkipStart(start_date, end_date, rev) ==
    LET difference_days == DiffDays(end_date, start_date)
        values == IF rev THEN Range(0, difference_days)
                  ELSE Reversed(Range(1, difference_days))
        dates == [i \in 1 .. Len(values) |-> AddDays(end_date, -values[i])]
    IN  Append(dates, IF rev THEN start_date ELSE end_date)

get_dates_between_range(start_date, end_date, rev) ==
    LET difference_days == DiffDays(end_date, start_date)
        values == IF rev THEN Range(0, difference_days)
                  ELSE Reversed(Range(1, difference_days + 1))
        dates == [i \in 1 .. Len(values) |-> AddDays(end_date, -values[i])]
    IN  Append(dates, IF rev THEN start_date ELSE end_date)

get_week_start_dates_between_range(start_date, end_date, local_offset) ==
    LET min_date == DatePart(get_week_boundaries(start_date, local_offset)[1])
        difference_days == DiffDays(end_date, min_date)
        week_count == difference_days \div 7
        weeks == Range(1, week_count)
    IN  IF week_count = 0 THEN <<>>
        ELSE <<min_date>> \o [i \in 1 .. Len(weeks) |-> AddDays(min_date, weeks[i] * 7)]

RECURSIVE FirstDaysBut_KeepLast(_, _, _)
\* the loop without its test of the index: the last date is kept too
FirstDaysBut_KeepLast(dates, index, count) ==
    IF index >= Len(dates) THEN <<>>
    ELSE (IF dates[index + 1].day = 1 THEN <<dates[index + 1]>> ELSE <<>>)
         \o FirstDaysBut_KeepLast(dates, index + 1, count)

RECURSIVE FirstDaysBut(_, _, _)
\* the loop of get_month_start_dates_between_range over enumerate(dates),
\* from the 0-based index on
FirstDaysBut(dates, index, count) ==
    IF index >= Len(dates) THEN <<>>
    ELSE (IF dates[index + 1].day = 1 /\ index < count - 1
          THEN <<dates[index + 1]>> ELSE <<>>)
         \o FirstDaysBut(dates, index + 1, count)

get_month_start_dates_between_range(start_date, end_date) ==
    LET min_date == DatePart(get_month_boundaries(start_date)[1])
        dates == get_dates_between_range(min_date, end_date, FALSE)
        count == Len(dates)
    IN  IF start_date.month = end_date.month /\ start_date.year = end_date.year
        THEN <<>>
        ELSE FirstDaysBut(dates, 0, count)

\* get_years_between_range counting the years apart in either direction
get_years_between_range_AbsDiff(start_date, end_date) ==
    LET min_year == start_date.year
        max_year == end_date.year
        diff == IF max_year >= min_year THEN max_year - min_year
                ELSE min_year - max_year
        indexes == Range(0, diff + 1)
    IN  [i \in 1 .. Len(indexes) |-> min_year + indexes[i]]

get_years_between_range(start_date, end_date) ==
    LET min_year == start_date.year
        max_year == end_date.year
        diff == max_year - min_year
        indexes == Range(0, diff + 1)
    IN  [i \in 1 .. Len(indexes) |-> min_year + indexes[i]]

\* start dates: 2013-09-02, the start of the test suite's ranges, and the
\* days from 2023-12-25 on (2024 is a leap year that begins on a Monday);
\* each with the end dates from MaxBack days before it to MaxSpan days
\* after it
RangeStarts ==
    {Date(2013, 9, 2)}
    \cup {FromOrdinal(ToOrdinal(Date(2023, 12, 25)) + k) : k \in 0 .. MaxStartSpan}

InitRange ==
    /\ date \in RangeStarts
    /\ date_end \in {AddDays(date, k) : k \in (-MaxBack) .. MaxSpan}
    /\ date_str = None
    /\ reverse = FALSE
    /\ timezone = ""
    /\ calls = <<>>
    /\ result = Returned(<<>>)

GetDatesBetweenRange ==
    /\ calls = <<>>
    /\ \E rev \in BOOLEAN :
           /\ reverse' = rev
           /\ Call("get_dates_between_range",
                   Returned(get_dates_between_range(date, date_end, rev)))
    /\ UNCHANGED <<date_str, date, date_end, timezone>>

GetWeekStartDatesBetweenRange ==
    /\ calls = <<>>
    /\ \E local_offset \in LocalOffsets :
           Call("get_week_start_dates_between_range",
                Returned(get_week_start_dates_between_range(date, date_end,
                                                            local_offset)))
    /\ UNCHANGED <<date_str, date, date_end, reverse, timezone>>

GetMonthStartDatesBetweenRange ==
    /\ calls = <<>>
    /\ Call("get_month_start_dates_between_range",
            Returned(get_month_start_dates_between_range(date, date_end)))
    /\ UNCHANGED <<date_str, date, date_end, reverse, timezone>>

GetYearsBetweenRange ==
    /\ calls = <<>>
    /\ Call("get_years_between_range",
            Returned(get_years_between_range(date, date_end)))
    /\ UNCHANGED <<date_str, date, date_end, reverse, timezone>>

NextRange ==
    \/ GetDatesBetweenRange
    \/ GetWeekStartDatesBetweenRange
    \/ GetMonthStartDatesBetweenRange
    \/ GetYearsBetweenRange

SpecRange == InitRange /\ [][NextRange]_vars

-----------------------------------------------------------------------------
(* TimezoneConverter *)

\* the wall clock of a datetime as <<ordinal of the day, second of the day>>
WallClock(dt) == <<ToOrdinal(dt), dt.hour * 3600 + dt.minute * 60 + dt.second>>

\* dt + timedelta(seconds=seconds) forgetting to carry into the day
AddSeconds_NoDayCarry(dt, seconds) ==
    LET total == dt.hour * 3600 + dt.minute * 60 + dt.second + seconds
        s == total % 86400
    IN  [dt EXCEPT !.hour = s \div 3600, !.minute = (s % 3600) \div 60,
                   !.second = s % 60]

\* dt + datetime.timedelta(seconds=seconds): tzinfo and microsecond are kept
AddSeconds(dt, seconds) ==
    LET total == dt.hour * 3600 + dt.minute * 60 + dt.second + seconds
        day == AddDays(dt, total \div 86400)
        s == total % 86400
    IN  [day EXCEPT !.hour = s \div 3600, !.minute = (s % 3600) \div 60,
                    !.second = s % 60]

\* the zone database: for each zone the UTC instants at which its offset
\* changes, in ascending order, with the offset and name in force from then
\* on (pytz's _utc_transition_times and _transition_info), for the
\* transitions from autumn 2012 to spring 2014; UTC has the one offset
ZoneDb(zone) ==
    IF zone = "UTC" THEN
        << [at |-> Datetime(1970, 1, 1, 0, 0, 0, 0, None), utcoffset |-> 0,
            tzname |-> "UTC"] >>
    ELSE IF zone = "Europe/Ljubljana" THEN
        << [at |-> Datetime(2012, 10, 28, 1, 0, 0, 0, None), utcoffset |-> 3600,
            tzname |-> "CET"],
           [at |-> Datetime(2013, 3, 31, 1, 0, 0, 0, None), utcoffset |-> 7200,
            tzname |-> "CEST"],
           [at |-> Datetime(2013, 10, 27, 1, 0, 0, 0, None), utcoffset |-> 3600,
            tzname |-> "CET"],
           [at |-> Datetime(2014, 3, 30, 1, 0, 0, 0, None), utcoffset |-> 7200,
            tzname |-> "CEST"] >>
    ELSE IF zone = "US/Pacific" THEN
        << [at |-> Datetime(2012, 11, 4, 9, 0, 0, 0, None), utcoffset |-> -28800,
            tzname |-> "PST"],
           [at |-> Datetime(2013, 3, 10, 10, 0, 0, 0, None), utcoffset |-> -25200,
            tzname |-> "PDT"],
           [at |-> Datetime(2013, 11, 3, 9, 0, 0, 0, None), utcoffset |-> -28800,
            tzname |-> "PST"],
           [at |-> Datetime(2014, 3, 9, 10, 0, 0, 0, None), utcoffset |-> -25200,
            tzname |-> "PDT"] >>
    ELSE << >>

\* the names pytz.timezone resolves
KnownZones == {"UTC", "Europe/Ljubljana", "US/Pacific"}

\* a <= b for two naive datetimes
NotAfter(a, b) ==
    \/ WallClock(a)[1] < WallClock(b)[1]
    \/ WallClock(a)[1] = WallClock(b)[1] /\ WallClock(a)[2] <= WallClock(b)[2]

\* bisect_right(transition_times, dt): how many transitions are not after dt
BisectRight(transitions, dt) ==
    Cardinality({i \in 1 .. Len(transitions) : NotAfter(transitions[i].at, dt)})

\* fromutc reading the transition before the one in force
FromUtc_StaleTransition(zone, utc) ==
    LET transitions == ZoneDb(zone)
        idx == IF BisectRight(transitions, utc) - 2 > 0
               THEN BisectRight(transitions, utc) - 2 ELSE 0
        inf == transitions[idx + 1]
    IN  [AddSeconds(utc, inf.utcoffset) EXCEPT
            !.tzinfo = [kind |-> "pytz", zone |-> zone, offset |-> inf.utcoffset]]

\* pytz tzinfo.fromutc: the transition in force at the UTC wall clock utc
\* gives the offset to add (idx is 0-based, as in pytz)
FromUtc(zone, utc) ==
    LET transitions == ZoneDb(zone)
        idx == IF BisectRight(transitions, utc) - 1 > 0
               THEN BisectRight(transitions, utc) - 1 ELSE 0
        inf == transitions[idx + 1]
    IN  [AddSeconds(utc, inf.utcoffset) EXCEPT
            !.tzinfo = [kind |-> "pytz", zone |-> zone, offset |-> inf.utcoffset]]

\* astimezone adding the datetime's own offset where it is to be taken off
astimezone_AddsOffset(dt, zone) ==
    FromUtc(zone, [AddSeconds(dt, dt.tzinfo.offset) EXCEPT !.tzinfo = None])

\* datetime.astimezone(tz) of an aware datetime:
\* utc = (self - offset).replace(tzinfo=tz); tz.fromutc(utc)
astimezone(dt, zone) ==
    FromUtc(zone, [AddSeconds(dt, -dt.tzinfo.offset) EXCEPT !.tzinfo = None])

\* convert_date_to_local_date: pytz.timezone raises UnknownTimeZoneError for
\* a name it does not know, astimezone ValueError for a naive datetime and,
\* through utcoffset(), TypeError for a datetime whose tzinfo is TZInfo(None)
convert_date_to_local_date(dt, zone) ==
    IF zone \notin KnownZones THEN Raised("UnknownTimeZoneError")
    ELSE IF dt.tzinfo = None THEN Raised("ValueError")
    ELSE IF dt.tzinfo = TZInfoOfNone THEN Raised("TypeError")
    ELSE Returned(astimezone(dt, zone))

\* email.utils._monthnames, January to December
MonthNames == <<"Jan", "Feb", "Mar", "Apr", "May", "Jun",
                "Jul", "Aug", "Sep", "Oct", "Nov", "Dec">>

\* the text "<DayName>, <D> <MonthName> <YYYY> <HH>:<MM>:<SS> <+/-HHMM>",
\* field by field: tz is the number its last field reads as (+0200 is 200,
\* -0700 is -700).  has_time tells whether the text goes on after the year;
\* tz_token is "numeric" for a +/-HHMM field, "absent" for none, and
\* otherwise the zone name standing in its place
DateStr(dayname, day, monthname, year, hour, minute, second, tz) ==
    [kind |-> "str", dayname |-> dayname, day |-> day, monthname |-> monthname,
     year |-> year, hour |-> hour, minute |-> minute, second |-> second,
     tz |-> tz, has_time |-> TRUE, tz_token |-> "numeric"]

\* email.utils._timezones: the zone names parsedate_tz knows, with their
\* offsets as +/-HHMM numbers (the names of the model's texts)
Timezones == [name \in {"GMT", "PDT"} |-> IF name = "GMT" THEN 0 ELSE -700]

\* email.utils.parsedate_tz (Python 2): <<>> stands for the None it returns
\* for a text of fewer than five fields or with no month name.  Otherwise
\* the 10-tuple: the month's number from its name, a two-digit year moved
\* into 1969..2068, no check of any range, and last the offset in seconds
\* as <<seconds>>, or <<>> for None when the zone field is neither a known
\* name nor a number
parsedate_tz(text) ==
    IF ~text.has_time THEN <<>>
    ELSE IF \A i \in 1 .. 12 : MonthNames[i] # text.monthname THEN <<>>
    ELSE
    LET mm == CHOOSE i \in 1 .. 12 : MonthNames[i] = text.monthname
        yy == IF text.year < 100
              THEN (IF text.year > 68 THEN text.year + 1900 ELSE text.year + 2000)
              ELSE text.year
        known == text.tz_token = "numeric" \/ text.tz_token \in DOMAIN Timezones
        tz == IF text.tz_token = "numeric" THEN text.tz
              ELSE IF text.tz_token \in DOMAIN Timezones
              THEN Timezones[text.tz_token]
              ELSE 0
        tzsign == IF tz < 0 THEN -1 ELSE 1
        tzabs == IF tz < 0 THEN -tz ELSE tz
        tzoffset == IF tz # 0
                    THEN tzsign * ((tzabs \div 100) * 3600 + (tzabs % 100) * 60)
                    ELSE tz
    IN  <<yy, mm, text.day, text.hour, text.minute, text.second,
          0, 1, -1, IF known THEN <<tzoffset>> ELSE <<>> >>

\* datetime.datetime(year, month, day, hour, minute, second) accepts its
\* arguments; it raises ValueError otherwise
ValidDatetimeArgs(year, month, day, hour, minute, second) ==
    /\ year \in 1 .. 9999
    /\ month \in 1 .. 12
    /\ day \in 1 .. DaysInMonth(year, month)
    /\ hour \in 0 .. 23
    /\ minute \in 0 .. 59
    /\ second \in 0 .. 59

\* convert_date_str_to_date: parsed[0:6] of None raises TypeError, the
\* datetime constructor ValueError; TZInfo(offset) takes whatever offset
\* parsedate_tz gave, None too
convert_date_str_to_date(text) ==
    LET parsed == parsedate_tz(text)
    IN  IF Len(parsed) = 0 THEN Raised("TypeError")
        ELSE IF ~ValidDatetimeArgs(parsed[1], parsed[2], parsed[3], parsed[4],
                                   parsed[5], parsed[6])
        THEN Raised("ValueError")
        ELSE Returned(Datetime(parsed[1], parsed[2], parsed[3], parsed[4],
                               parsed[5], parsed[6], 0,
                               IF Len(parsed[10]) = 0 THEN TZInfoOfNone
                               ELSE TZInfo(parsed[10][1])))

\* convert_date_str_to_utc: an exception of the first call ends the function
convert_date_str_to_utc(text) ==
    LET parsed_date == convert_date_str_to_date(text)
    IN  IF parsed_date.raised # "" THEN parsed_date
        ELSE convert_date_to_local_date(parsed_date.value, "UTC")

\* the English day names strftime('%a') gives, Monday first
DayNames == <<"Mon", "Tue", "Wed", "Thu", "Fri", "Sat", "Sun">>

\* the days the texts name: the days from 2013-10-25 on, over both zones'
\* autumn transitions, the test suite's two days, a spring transition day
\* and the turn of the year
TextDays ==
    {FromOrdinal(ToOrdinal(Date(2013, 10, 25)) + k) : k \in 0 .. MaxTzSpan}
    \cup {Date(2013, 10, 9), Date(2013, 9, 9), Date(2013, 3, 10),
          Date(2013, 12, 31), Date(2014, 1, 1)}

TextMinuteSeconds == {<<39, 59>>, <<0, 0>>}

\* the offsets the texts carry: +0200, -0700, +0000, +0100, -0800, +0530
TextOffsets == {200, -700, 0, 100, -800, 530}

DateStrs ==
    {DateStr(DayNames[Weekday(d) + 1], d.day, MonthNames[d.month], d.year,
             h, ms[1], ms[2], tz) :
        d \in TextDays, h \in 0 .. 23, ms \in TextMinuteSeconds,
        tz \in TextOffsets}
    \cup {DateStr("Mon", 9, "Sep", 2013, 17, 42, 22, -700)}

\* the zone names a caller passes, one of them unknown to the database
ZoneNames == KnownZones \cup {"Mars/Olympus_Mons"}

InitTz ==
    /\ date_str \in DateStrs
    /\ date = None
    /\ date_end = None
    /\ reverse = FALSE
    /\ timezone = ""
    /\ calls = <<>>
    /\ result = Returned(<<>>)

ConvertDateStrToDate ==
    /\ calls = <<>>
    /\ Call("convert_date_str_to_date", convert_date_str_to_date(date_str))
    /\ UNCHANGED <<date_str, date, date_end, reverse, timezone>>

ConvertDateStrToUtc ==
    /\ calls = <<>>
    /\ Call("convert_date_str_to_utc", convert_date_str_to_utc(date_str))
    /\ UNCHANGED <<date_str, date, date_end, reverse, timezone>>

\* convert_date_to_local_date called on the datetime the call before returned
ConvertDateToLocalDate ==
    /\ calls \in {<<"convert_date_str_to_date">>, <<"convert_date_str_to_utc">>}
    /\ result.raised = ""
    /\ \E zone \in ZoneNames :
           /\ timezone' = zone
           /\ date' = result.value
           /\ Call("convert_date_to_local_date",
                   convert_date_to_local_date(result.value, zone))
    /\ UNCHANGED <<date_str, date_end, reverse>>

NextTz ==
    \/ ConvertDateStrToDate
    \/ ConvertDateStrToUtc
    \/ ConvertDateToLocalDate

SpecTz == InitTz /\ [][NextTz]_vars

\* texts that depart from the shape in one place: from a well-formed text
\* at either end of each day, one cut short after the year, ones with no
\* zone field or a zone name in its place, with a month that is no name,
\* with a two-digit year, and with a field out of its range
DepartingDateStrs ==
    UNION {
        {[t EXCEPT !.has_time = FALSE],
         [t EXCEPT !.monthname = "13"],
         [t EXCEPT !.monthname = "Okt"],
         [t EXCEPT !.year = 13],
         [t EXCEPT !.year = 99],
         [t EXCEPT !.hour = 24],
         [t EXCEPT !.minute = 60],
         [t EXCEPT !.second = 60],
         [t EXCEPT !.day = 32],
         [t EXCEPT !.day = 0],
         [t EXCEPT !.day = 30, !.monthname = "Feb"]}
        \cup {[t EXCEPT !.tz_token = name] :
                  name \in {"absent", "CEST"} \cup DOMAIN Timezones} :
        t \in {u \in DateStrs : u.hour \in {0, 23} /\ u.minute = 39}}

InitParse ==
    /\ date_str \in DateStrs \cup DepartingDateStrs
    /\ date = None
    /\ date_end = None
    /\ reverse = FALSE
    /\ timezone = ""
    /\ calls = <<>>
    /\ result = Returned(<<>>)

NextParse ==
    \/ ConvertDateStrToDate
    \/ ConvertDateStrToUtc

SpecParse == InitParse /\ [][NextParse]_vars

-----------------------------------------------------------------------------
(* Claims about the boundary functions, under Spec *)

IsMinTimeOfDay(x) ==
    x.hour = 0 /\ x.minute = 0 /\ x.second = 0 /\ x.microsecond = 0

IsMaxTimeOfDay(x) ==
    x.hour = 23 /\ x.minute = 59 /\ x.second = 59 /\ x.microsecond = 999999

SameDay(x, y) == x.year = y.year /\ x.month = y.month /\ x.day = y.day

\* C1: get_min_time(i) has time of day 00:00:00.000000 and get_max_time(i)
\* 23:59:59.999999, and both keep i's year, month, day and i's UTC offset.
C1_MinMaxKeepDateAndOffset ==
    /\ calls = <<"get_min_time">> =>
           /\ IsMinTimeOfDay(result.value)
           /\ SameDay(result.value, date)
           /\ result.value.tzinfo = date.tzinfo
    /\ calls = <<"get_max_time">> =>
           /\ IsMaxTimeOfDay(result.value)
           /\ SameDay(result.value, date)
           /\ result.value.tzinfo = date.tzinfo

\* C2: get_week_boundaries(d) returns 00:00:00 on the Monday on or before d
\* and 23:59:59.999999 on the Sunday on or after d, so start <= d <= end.
C2_WeekContainsDate ==
    calls = <<"get_week_boundaries">> =>
        LET start == result.value[1]
            end == result.value[2]
        IN  /\ IsMinTimeOfDay(start)
            /\ IsMaxTimeOfDay(end)
            /\ ToOrdinal(start) = ToOrdinal(date) - Weekday(date)
            /\ ToOrdinal(end) = ToOrdinal(date) + (6 - Weekday(date))

\* C3: get_week_boundaries(d) returns a start that falls on a Monday and an
\* end that is the last instant of the sixth day after it: exactly 7
\* consecutive dates beginning on a Monday.
C3_WeekIsSevenDaysFromMonday ==
    calls = <<"get_week_boundaries">> =>
        LET start == result.value[1]
            end == result.value[2]
        IN  /\ Weekday(start) = 0
            /\ IsMinTimeOfDay(start)
            /\ ToOrdinal(end) = ToOrdinal(start) + 6
            /\ Weekday(end) = 6
            /\ IsMaxTimeOfDay(end)
            /\ end.tzinfo = start.tzinfo

\* a week found with %W week 0 that lies across a year boundary
C3_Witness ==
    /\ calls = <<"get_week_boundaries">>
    /\ isocalendar(date)[2] - 1 = 0
    /\ result.value[1].year < result.value[2].year
    /\ Weekday(result.value[1]) = 0

\* the Gregorian length of a month, from the rule as the claim states it
GregorianLastDay(year, month) ==
    IF month \in {4, 6, 9, 11} THEN 30
    ELSE IF month # 2 THEN 31
    ELSE IF year % 400 = 0 THEN 29
    ELSE IF year % 100 = 0 THEN 28
    ELSE IF year % 4 = 0 THEN 29
    ELSE 28

\* C4: get_month_boundaries(d) returns 00:00:00.000000 on day 1 of d's year
\* and month and 23:59:59.999999 on the Gregorian last day of that month.
C4_MonthBoundaries ==
    calls = <<"get_month_boundaries">> =>
        LET start == result.value[1]
            end == result.value[2]
        IN  /\ start.year = date.year /\ start.month = date.month
            /\ start.day = 1
            /\ IsMinTimeOfDay(start)
            /\ end.year = date.year /\ end.month = date.month
            /\ end.day = GregorianLastDay(date.year, date.month)
            /\ IsMaxTimeOfDay(end)

\* February of a century year that is not a leap year
C4_Witness ==
    /\ calls = <<"get_month_boundaries">>
    /\ date.year = 1900 /\ date.month = 2
    /\ result.value[2].day = 28
    /\ result.value[1].day = 1

-----------------------------------------------------------------------------
(* Claims about the range enumerations, under SpecRange *)

\* C5: for start <= end, get_dates_between_range returns (end - start).days
\* + 1 dates, from start to end one day apart, and with reverse=True the
\* same dates in the opposite order.
C5_DatesBetweenRange ==
    (calls = <<"get_dates_between_range">> /\ DiffDays(date_end, date) >= 0) =>
        LET dates == result.value
            n == DiffDays(date_end, date) + 1
        IN  /\ result.raised = ""
            /\ Len(dates) = n
            /\ \A i \in 1 .. n : dates[i].kind = "date"
            /\ ~reverse =>
                  /\ dates[1] = date /\ dates[n] = date_end
                  /\ \A i \in 1 .. n :
                         ToOrdinal(dates[i]) = ToOrdinal(date) + (i - 1)
            /\ reverse =>
                  /\ dates[1] = date_end /\ dates[n] = date
                  /\ \A i \in 1 .. n :
                         ToOrdinal(dates[i]) = ToOrdinal(date) + (n - i)

\* a descending enumeration over more than a month, across 29 February
C5_Witness ==
    /\ calls = <<"get_dates_between_range">>
    /\ reverse
    /\ date_end = Date(2024, 3, 1)
    /\ Len(result.value) = DiffDays(date_end, date) + 1
    /\ Len(result.value) > 31
    /\ result.value[2] = Date(2024, 2, 29)

\* a single date: start = end
C5_WitnessSingle ==
    /\ calls = <<"get_dates_between_range">>
    /\ date = date_end
    /\ result.value = <<date>>

\* C6 as stated: a reversed range is reported as an InvalidRangeError
\* failure by get_dates_between_range (end < start) and by
\* get_years_between_range (end.year < start.year).
C6_ReversedRangeFails ==
    /\ (calls = <<"get_dates_between_range">> /\ DiffDays(date_end, date) < 0)
           => result.raised = "InvalidRangeError"
    /\ (calls = <<"get_years_between_range">> /\ date_end.year < date.year)
           => result.raised = "InvalidRangeError"

\* C6 as amended: a reversed range is not reported as a failure;
\* get_dates_between_range returns the one-element list [end] (or [start]
\* with reverse=True) and get_years_between_range the empty list.
C6_ReversedRangeReturns ==
    /\ (calls = <<"get_dates_between_range">> /\ DiffDays(date_end, date) < 0)
           => /\ result.raised = ""
              /\ result.value = <<IF reverse THEN date ELSE date_end>>
    /\ (calls = <<"get_years_between_range">> /\ date_end.year < date.year)
           => /\ result.raised = ""
              /\ result.value = <<>>

\* get_years_between_range given an end in the year before the start's
C6_Witness ==
    /\ calls = <<"get_years_between_range">>
    /\ date_end.year < date.year
    /\ result = Returned(<<>>)

\* the Monday of the week that holds d
MondayOf(d) == ToOrdinal(d) - Weekday(d)

\* C7: for start <= end, get_week_start_dates_between_range returns, in
\* ascending order, exactly the dates m0 + 7k with m0 + 7(k+1) <= end, m0
\* being the Monday of the week that holds start.
C7_WeekStartDates ==
    (calls = <<"get_week_start_dates_between_range">>
        /\ DiffDays(date_end, date) >= 0) =>
        LET m0 == MondayOf(date)
            n == (ToOrdinal(date_end) - m0) \div 7
        IN  /\ result.raised = ""
            /\ result.value = [k \in 1 .. n |-> FromOrdinal(m0 + 7 * (k - 1))]

\* months counted from year 0
MonthIndex(d) == d.year * 12 + (d.month - 1)

\* C8: for start <= end, get_month_start_dates_between_range returns the
\* first-of-month dates from start's month on, excluding every one that
\* coincides with or follows the first day of end's month.
C8_MonthStartDates ==
    (calls = <<"get_month_start_dates_between_range">>
        /\ DiffDays(date_end, date) >= 0) =>
        LET m0 == MonthIndex(date)
            n == MonthIndex(date_end) - m0
        IN  /\ result.raised = ""
            /\ result.value =
                   [k \in 1 .. n |->
                       Date((m0 + k - 1) \div 12, ((m0 + k - 1) % 12) + 1, 1)]

-----------------------------------------------------------------------------
(* Claims about the time zone conversions, under SpecTz *)

\* the point of the UTC timeline an aware datetime denotes, in seconds since
\* 1970-01-01T00:00Z: its wall clock minus its offset
UtcSeconds(dt) ==
    (ToOrdinal(dt) - 719163) * 86400
    + dt.hour * 3600 + dt.minute * 60 + dt.second - dt.tzinfo.offset

\* the database's offset for a zone at a point of the UTC timeline: that of
\* the last transition at or before it, of the first one before any
DbOffsetAt(zone, utc_seconds) ==
    LET transitions == ZoneDb(zone)
        past == {i \in 1 .. Len(transitions) :
                    UtcSeconds(transitions[i].at) <= utc_seconds}
    IN  IF past = {} THEN transitions[1].utcoffset
        ELSE transitions[CHOOSE i \in past : \A j \in past : j <= i].utcoffset

\* the offset in seconds a text's +/-HHMM field denotes
TextOffsetSeconds(text) ==
    IF text.tz < 0
    THEN -(((-text.tz) \div 100) * 3600 + ((-text.tz) % 100) * 60)
    ELSE (text.tz \div 100) * 3600 + (text.tz % 100) * 60

\* the point of the UTC timeline a text denotes
TextUtcSeconds(text) ==
    (ToOrdinal(Date(text.year,
                    CHOOSE i \in 1 .. 12 : MonthNames[i] = text.monthname,
                    text.day)) - 719163) * 86400
    + text.hour * 3600 + text.minute * 60 + text.second
    - TextOffsetSeconds(text)

LastCall == IF calls = <<>> THEN "" ELSE calls[Len(calls)]

\* C9: convert_date_to_local_date(i, z) of an aware i and a known z returns
\* the same point of the UTC timeline, with the database's offset for z at
\* that point; convert_date_str_to_utc returns offset +0000 and the parsed
\* wall clock minus the parsed offset.
C9_ConversionKeepsInstant ==
    /\ (LastCall = "convert_date_to_local_date" /\ timezone \in KnownZones) =>
           /\ result.raised = ""
           /\ result.value.kind = "datetime"
           /\ result.value.tzinfo.offset = DbOffsetAt(timezone, UtcSeconds(date))
           /\ UtcSeconds(result.value) = UtcSeconds(date)
           /\ result.value.microsecond = date.microsecond
           /\ result.value.hour \in 0 .. 23
           /\ result.value.day \in 1 .. GregorianLastDay(result.value.year,
                                                         result.value.month)
    /\ calls = <<"convert_date_str_to_utc">> =>
           /\ result.raised = ""
           /\ result.value.tzinfo.offset = 0
           /\ UtcSeconds(result.value) = TextUtcSeconds(date_str)
           /\ date_str = DateStr("Wed", 9, "Oct", 2013, 0, 39, 59, 200) =>
                  result.value = Datetime(2013, 10, 8, 22, 39, 59, 0,
                                          [kind |-> "pytz", zone |-> "UTC",
                                           offset |-> 0])

\* a conversion into a zone with daylight saving time in force that rolls
\* the wall clock back over the turn of the year
C9_Witness ==
    /\ calls = <<"convert_date_str_to_date", "convert_date_to_local_date">>
    /\ timezone = "US/Pacific"
    /\ date.year = 2014 /\ date.tzinfo.offset = 19800
    /\ result.raised = ""
    /\ result.value.year = 2013 /\ result.value.month = 12
    /\ result.value.tzinfo.offset = -28800

\* the test suite's text converted to UTC
C9_WitnessUtc ==
    /\ calls = <<"convert_date_str_to_utc">>
    /\ date_str = DateStr("Wed", 9, "Oct", 2013, 0, 39, 59, 200)
    /\ result.value.day = 8 /\ result.value.hour = 22

\* C10: a text i converted to "UTC" and that result converted to a named
\* zone z whose database offset at i's instant equals i's offset gives
\* back i's year, month, day, hour, minute, second and offset.
C10_RoundTrip ==
    (/\ calls = <<"convert_date_str_to_utc", "convert_date_to_local_date">>
     /\ timezone \in KnownZones
     /\ DbOffsetAt(timezone, TextUtcSeconds(date_str)) = TextOffsetSeconds(date_str))
    =>
        /\ result.raised = ""
        /\ result.value.year = date_str.year
        /\ MonthNames[result.value.month] = date_str.monthname
        /\ result.value.day = date_str.day
        /\ result.value.hour = date_str.hour
        /\ result.value.minute = date_str.minute
        /\ result.value.second = date_str.second
        /\ result.value.tzinfo.offset = TextOffsetSeconds(date_str)

\* the test suite's round trip through UTC back to Europe/Ljubljana, whose
\* UTC wall clock falls on the day before
C10_Witness ==
    /\ calls = <<"convert_date_str_to_utc", "convert_date_to_local_date">>
    /\ date_str = DateStr("Wed", 9, "Oct", 2013, 0, 39, 59, 200)
    /\ timezone = "Europe/Ljubljana"
    /\ date.day = 8
    /\ result.value.day = 9 /\ result.value.hour = 0
    /\ result.value.tzinfo.offset = 7200

-----------------------------------------------------------------------------
(* Claims about the parsing of texts, under SpecParse *)

\* the text has the shape
\* "<DayName>, <D> <MonthName> <YYYY> <HH>:<MM>:<SS> <+/-HHMM>": it goes on
\* to the time, names a month and ends in a numeric offset (a year of two
\* digits is not held against it)
MatchesShape(text) ==
    /\ text.has_time
    /\ text.tz_token = "numeric"
    /\ \E i \in 1 .. 12 : MonthNames[i] = text.monthname

\* every numeric field of a text of the shape is within its range
FieldsInRange(text) ==
    /\ text.day \in 1 .. GregorianLastDay(
           text.year, CHOOSE i \in 1 .. 12 : MonthNames[i] = text.monthname)
    /\ text.hour \in 0 .. 23
    /\ text.minute \in 0 .. 59
    /\ text.second \in 0 .. 59

\* C11: convert_date_str_to_date reports a failure, and returns no datetime,
\* for every text that does not match the shape or has a numeric field out
\* of range; every datetime it returns carries an integer UTC offset.
C11_ParseFailureReported ==
    calls = <<"convert_date_str_to_date">> =>
        /\ (~MatchesShape(date_str) \/ ~FieldsInRange(date_str))
               => result.raised # ""
        /\ result.raised = "" => result.value.tzinfo.kind = "TZInfo"

-----------------------------------------------------------------------------
(* A claim about the month starts of a range that ends on a first of month, *)
(* under SpecRange                                                          *)

\* the first day of the month with the given index
FirstOfMonth(month_index) == Date(month_index \div 12, (month_index % 12) + 1, 1)

\* C12: when end is day 1 of a month later than start's,
\* get_month_start_dates_between_range(start, end) leaves end itself out and
\* returns exactly the first-of-month dates from start's month through the
\* month before end's.
C12_EndOnFirstOfMonthIsDropped ==
    (/\ calls = <<"get_month_start_dates_between_range">>
     /\ date_end.day = 1
     /\ MonthIndex(date_end) > MonthIndex(date))
    =>
        LET months == result.value
            n == MonthIndex(date_end) - MonthIndex(date)
        IN  /\ result.raised = ""
            /\ Len(months) = n
            /\ months[1] = FirstOfMonth(MonthIndex(date))
            /\ months[n] = FirstOfMonth(MonthIndex(date_end) - 1)
            /\ \A k \in 1 .. n :
                   /\ months[k] = FirstOfMonth(MonthIndex(date) + k - 1)
                   /\ months[k] # date_end

\* the test suite's range of a single month, 2013-09-02 to 2013-10-01
C12_Witness ==
    /\ calls = <<"get_month_start_dates_between_range">>
    /\ date = Date(2013, 9, 2)
    /\ date_end = Date(2013, 10, 1)
    /\ result = Returned(<<Date(2013, 9, 1)>>)

\* a range over a year end that ends on the first day of its third month
C12_WitnessTwoMonths ==
    /\ calls = <<"get_month_start_dates_between_range">>
    /\ date.year = 2023
    /\ date_end = Date(2024, 2, 1)
    /\ result = Returned(<<Date(2023, 12, 1), Date(2024, 1, 1)>>)

====
